---------------------------- MODULE Spec2Model ----------------------------
(***************************************************************************)
(* OTP login service (Go-OTP-Login): rate-limited OTP issuance, OTP        *)
(* verification with implicit registration, HS256 bearer tokens and the    *)
(* authenticate / requireAuthenticatedUser middleware.                     *)
(*                                                                         *)
(* Time is counted in minutes.  Strings that the code concatenates or      *)
(* parses are sequences of symbols: a phone number is a sequence such as   *)
(* <<"a">>, a rate-limit key is <<"rl:otp:">> \o phone, a decimal string    *)
(* is a sequence of digit characters.                                      *)
(***************************************************************************)
EXTENDS Integers, Sequences, FiniteSets, TLC

(* ------------------------------ bounds -------------------------------- *)

\* minute ticks taken from time 0, and again after a long idle period
MaxTime == 3
\* the counter of one window is driven at most to this value
MaxCount == 4
\* largest id the users sequence hands out
MaxId == 3

(* ------------------------- program constants -------------------------- *)

otpRateLimitMax == 3
\* otpRateLimitWindow, 10 * time.Minute, in minutes
otpRateLimitWindow == 10
\* 2*time.Minute of storeOTPInRedis, in minutes
OtpTTL == 2
\* 48*time.Hour of handleVerifyOTP, in minutes
JwtTTL == 2880
\* width of "%04d" and modulus of generateOTP
OtpWidth == 4
OtpModulus == 10000

StatusOK == 200
StatusBadRequest == 400
StatusUnauthorized == 401
StatusTooManyRequests == 429
StatusInternalServerError == 500

(* ------------------------------ inputs -------------------------------- *)

Procs == {1, 2}
\* phone numbers clients send; the second one spells the rate-limit key of the first
Phones == {<<"a">>, <<"rl:otp:", "a">>}
EmptyString == <<>>
\* values of the first random byte of generateOTP
OtpBytes == {7, 42}
\* the largest value of a byte
MaxByte == 255
Bytes == 0..MaxByte
\* no value; the TTL of a key without expiry
None == 0 - 1
NoTTL == None

(* --------------------------- decimal strings -------------------------- *)

DigitChars == <<"0", "1", "2", "3", "4", "5", "6", "7", "8", "9">>

RECURSIVE FormatInt(_)
\* strconv.FormatInt(n, 10) for n >= 0
FormatInt(n) ==
    IF n < 10 THEN <<DigitChars[n + 1]>>
    ELSE Append(FormatInt(n \div 10), DigitChars[(n % 10) + 1])

RECURSIVE PadLeft(_, _)
PadLeft(s, w) == IF Len(s) >= w THEN s ELSE PadLeft(<<"0">> \o s, w)

\* fmt.Sprintf("%d", n): no padding
Sprintf04d_plain(n) == FormatInt(n)

\* fmt.Sprintf("%04d", n) for n >= 0
Sprintf04d(n) == PadLeft(FormatInt(n), OtpWidth)

\* generateOTP: fmt.Sprintf("%04d", int(otp[0])%10000), otp[0] the first random byte
generateOTP(b0) == Sprintf04d(b0 % OtpModulus)

DigitValue(c) == CHOOSE d \in 0..9 : DigitChars[d + 1] = c
IsDigit(c) == \E d \in 0..9 : DigitChars[d + 1] = c

RECURSIVE DigitsValue(_)
DigitsValue(s) ==
    IF s = <<>> THEN 0
    ELSE 10 * DigitsValue(SubSeq(s, 1, Len(s) - 1)) + DigitValue(s[Len(s)])

\* strconv.ParseInt(s, 10, 64): an optional sign, then one or more digits
ParseIntOk(s) ==
    LET body == IF s # <<>> /\ s[1] \in {"+", "-"} THEN Tail(s) ELSE s
    IN  body # <<>> /\ \A i \in 1..Len(body) : IsDigit(body[i])

ParseInt(s) ==
    IF s[1] = "-" THEN 0 - DigitsValue(Tail(s))
    ELSE IF s[1] = "+" THEN DigitsValue(Tail(s))
    ELSE DigitsValue(s)

(* --------------------------- ephemeral store -------------------------- *)

RLKey(phone) == <<"rl:otp:">> \o phone
Keys == Phones \cup {RLKey(ph) : ph \in Phones}

NoKey == [type |-> "none", val |-> None, otp |-> EmptyString, exp |-> NoTTL]
StringKey(n, e) == [type |-> "string", val |-> n, otp |-> EmptyString, exp |-> e]
HashKey(o, e) == [type |-> "hash", val |-> None, otp |-> o, exp |-> e]

\* a key is gone once its time to live has elapsed
Purge(c, t) ==
    [k \in Keys |-> IF c[k].type # "none" /\ c[k].exp # NoTTL /\ c[k].exp <= t
                    THEN NoKey ELSE c[k]]

\* TTL key, in minutes
RedisTTL(c, k, t) == IF c[k].exp = NoTTL THEN NoTTL ELSE c[k].exp - t

\* otpRateLimitScript with the INCR lost: the new count is returned and not stored
otpRateLimitScript_lost(c, key, win, t) ==
    IF c[key].type = "none"
    THEN [err |-> FALSE, count |-> 1, ttl |-> win,
          cache |-> [c EXCEPT ![key] = StringKey(1, t + win)]]
    ELSE IF c[key].type = "string"
    THEN [err |-> FALSE, count |-> c[key].val + 1, ttl |-> RedisTTL(c, key, t), cache |-> c]
    ELSE [err |-> TRUE, count |-> 0, ttl |-> 0, cache |-> c]

\* otpRateLimitScript setting the key without "EX", win
otpRateLimitScript_noexpiry(c, key, win, t) ==
    IF c[key].type = "none"
    THEN [err |-> FALSE, count |-> 1, ttl |-> win,
          cache |-> [c EXCEPT ![key] = StringKey(1, NoTTL)]]
    ELSE IF c[key].type = "string"
    THEN [err |-> FALSE, count |-> c[key].val + 1, ttl |-> RedisTTL(c, key, t),
          cache |-> [c EXCEPT ![key] = StringKey(c[key].val + 1, c[key].exp)]]
    ELSE [err |-> TRUE, count |-> 0, ttl |-> 0, cache |-> c]

\* otpRateLimitScript renewing the time to live of the key on every call
otpRateLimitScript_sliding(c, key, win, t) ==
    IF c[key].type = "none"
    THEN [err |-> FALSE, count |-> 1, ttl |-> win,
          cache |-> [c EXCEPT ![key] = StringKey(1, t + win)]]
    ELSE IF c[key].type = "string"
    THEN [err |-> FALSE, count |-> c[key].val + 1, ttl |-> win,
          cache |-> [c EXCEPT ![key] = StringKey(c[key].val + 1, t + win)]]
    ELSE [err |-> TRUE, count |-> 0, ttl |-> 0, cache |-> c]

\* otpRateLimitScript, run atomically by the store:
\* count 0 stands for the script's error reply (INCR on a key of the wrong type)
otpRateLimitScript(c, key, win, t) ==
    IF c[key].type = "none"
    THEN [err |-> FALSE, count |-> 1, ttl |-> win,
          cache |-> [c EXCEPT ![key] = StringKey(1, t + win)]]
    ELSE IF c[key].type = "string"
    THEN [err |-> FALSE, count |-> c[key].val + 1, ttl |-> RedisTTL(c, key, t),
          cache |-> [c EXCEPT ![key] = StringKey(c[key].val + 1, c[key].exp)]]
    ELSE [err |-> TRUE, count |-> 0, ttl |-> 0, cache |-> c]

\* allowOTPRequest with the comparison off by one: count < otpRateLimitMax
allowOTPRequest_strict(c, phone, t) ==
    LET res == otpRateLimitScript(c, RLKey(phone), otpRateLimitWindow, t)
    IN  [err |-> res.err, count |-> res.count,
         allowed |-> (~res.err /\ res.count < otpRateLimitMax),
         cache |-> res.cache]

\* allowOTPRequest: key "rl:otp:" + phone, allowed := count <= otpRateLimitMax
allowOTPRequest(c, phone, t) ==
    LET res == otpRateLimitScript(c, RLKey(phone), otpRateLimitWindow, t)
    IN  [err |-> res.err, count |-> res.count,
         allowed |-> (~res.err /\ res.count <= otpRateLimitMax),
         cache |-> res.cache]

\* HSET that leaves the field of an existing hash as it is (HSETNX)
HSet_keep(c, key, code) ==
    IF c[key].type = "string" THEN [err |-> TRUE, cache |-> c]
    ELSE IF c[key].type = "hash" THEN [err |-> FALSE, cache |-> c]
    ELSE [err |-> FALSE, cache |-> [c EXCEPT ![key] = HashKey(code, NoTTL)]]

\* HSET key otp <code>
HSet(c, key, code) ==
    IF c[key].type = "string" THEN [err |-> TRUE, cache |-> c]
    ELSE IF c[key].type = "hash"
    THEN [err |-> FALSE, cache |-> [c EXCEPT ![key] = HashKey(code, c[key].exp)]]
    ELSE [err |-> FALSE, cache |-> [c EXCEPT ![key] = HashKey(code, NoTTL)]]

\* EXPIRE key ttl: no error and no effect on a key that does not exist
Expire(c, key, ttl, t) ==
    IF c[key].type = "none" THEN [err |-> FALSE, cache |-> c]
    ELSE [err |-> FALSE, cache |-> [c EXCEPT ![key].exp = t + ttl]]

\* HGETALL key: the empty map for a key that does not exist
HGetAll(c, key) ==
    IF c[key].type = "string" THEN [err |-> TRUE, otp |-> EmptyString]
    ELSE [err |-> FALSE, otp |-> c[key].otp]

\* verifyOTPInRedis that only looks for a record and does not compare the code
verifyOTPInRedis_present(c, phone, otp) ==
    LET data == HGetAll(c, phone)
    IN  ~data.err /\ (data.otp = EmptyString <=> otp = EmptyString)

\* verifyOTPInRedis returns nil
verifyOTPInRedis(c, phone, otp) ==
    LET data == HGetAll(c, phone)
    IN  ~data.err /\ data.otp = otp

\* A store call fails: the reply is an error, or none arrives before the
\* context of the handler times out.  The command ran at the store or it did not.

\* allowOTPRequest taking a failed call for an admission
allowOTPRequestFails_open(c, phone, t, ran) ==
    LET res == otpRateLimitScript(c, RLKey(phone), otpRateLimitWindow, t)
    IN  [err |-> FALSE, count |-> 0, allowed |-> TRUE,
         cache |-> IF ran THEN res.cache ELSE c]

\* allowOTPRequest when otpRateLimitScript.Run returns an error: false, err
allowOTPRequestFails(c, phone, t, ran) ==
    LET res == otpRateLimitScript(c, RLKey(phone), otpRateLimitWindow, t)
    IN  [err |-> TRUE, count |-> 0, allowed |-> FALSE,
         cache |-> IF ran THEN res.cache ELSE c]

\* HGetAll returns an error
HGetAllFails(c, key) == [err |-> TRUE, otp |-> EmptyString]

\* verifyOTPInRedis when HGetAll returns an error: "invalid or expired OTP"
verifyOTPInRedisFails(c, phone, otp) ==
    LET data == HGetAllFails(c, phone)
    IN  ~data.err /\ data.otp = otp

HSetFails(c, key, code, ran) ==
    [err |-> TRUE, cache |-> IF ran THEN HSet(c, key, code).cache ELSE c]

ExpireFails(c, key, ttl, t, ran) ==
    [err |-> TRUE, cache |-> IF ran THEN Expire(c, key, ttl, t).cache ELSE c]


(* ---------------------------- identity store -------------------------- *)

\* a row of table users: id bigserial, created_at DEFAULT NOW(), phone_number UNIQUE
UserRow(id, t, phone) == [id |-> id, created_at |-> t, phone_number |-> phone]

NoUser == UserRow(0, 0, EmptyString)

\* table users without the UNIQUE constraint
UniqueViolation_off(us, phone) == FALSE

\* UNIQUE (phone_number): the insert is refused when a row holds the phone number
UniqueViolation(us, phone) == \E u \in us : u.phone_number = phone

\* UserModel.Insert replacing the row of the phone number (ON CONFLICT ... DO UPDATE)
Insert_upsert(us, seq, phone, t) ==
    [err |-> FALSE, user |-> UserRow(seq, t, phone),
     users |-> {u \in us : u.phone_number # phone} \cup {UserRow(seq, t, phone)},
     seq |-> seq + 1]

\* UserModel.Insert: INSERT INTO users (phone_number) ... RETURNING id, created_at.
\* The sequence value is consumed also by an insert the constraint refuses.
Insert(us, seq, phone, t) ==
    IF UniqueViolation(us, phone)
    THEN [err |-> TRUE, user |-> NoUser, users |-> us, seq |-> seq + 1]
    ELSE [err |-> FALSE, user |-> UserRow(seq, t, phone),
          users |-> us \cup {UserRow(seq, t, phone)}, seq |-> seq + 1]

\* UserModel.GetByPhoneNumber: err (sql.ErrNoRows) when no row matches
GetByPhoneNumber(us, phone) ==
    IF \E u \in us : u.phone_number = phone
    THEN [err |-> FALSE, user |-> CHOOSE u \in us : u.phone_number = phone]
    ELSE [err |-> TRUE, user |-> NoUser]

\* GetByID with the WHERE clause lost: the first row of the table
GetByID_first(us, id) ==
    IF us # {}
    THEN [err |-> FALSE, user |-> CHOOSE u \in us : \A v \in us : u.id <= v.id]
    ELSE [err |-> TRUE, user |-> NoUser]

\* UserModel.GetByID: ErrRecordNotFound when no row matches
GetByID(us, id) ==
    IF \E u \in us : u.id = id
    THEN [err |-> FALSE, user |-> CHOOSE u \in us : u.id = id]
    ELSE [err |-> TRUE, user |-> NoUser]

(* -------------------------------- tokens ------------------------------ *)

jwtSecret == "app.jwtSecret"
attackerKey == "other-key"

HMACAlgs == {"HS256", "HS384", "HS512"}
Algs == HMACAlgs \cup {"none", "RS256"}

\* the signature of header.payload under a key: it names everything it covers
Sign(key, alg, sub, iat, exp) ==
    [key |-> key, alg |-> alg, sub |-> sub, iat |-> iat, exp |-> exp]

NoSig == Sign("", "", EmptyString, None, None)

MakeToken(alg, sub, iat, exp, sig) ==
    [ok |-> TRUE, alg |-> alg, sub |-> sub, iat |-> iat, exp |-> exp, sig |-> sig]

\* no token, and a string that is not a compact JWT
NoToken == [ok |-> FALSE, alg |-> "", sub |-> EmptyString, iat |-> None, exp |-> None,
            sig |-> NoSig]

\* generateJWT: RegisteredClaims{Subject, IssuedAt: now, ExpiresAt: now.Add(ttl)},
\* signed HS256 with app.jwtSecret
generateJWT(userID, ttl, t) ==
    MakeToken("HS256", FormatInt(userID), t, t + ttl,
              Sign(jwtSecret, "HS256", FormatInt(userID), t, t + ttl))

\* the key function of authenticate: only the type of the method is checked
KeyfuncOk(tok) == tok.alg \in HMACAlgs

\* ParseWithClaims taking a token at the instant of its exp still as valid
ParseWithClaimsOk_inclusive(tok, t) ==
    /\ tok.ok
    /\ tok.alg \in Algs
    /\ KeyfuncOk(tok)
    /\ tok.sig = Sign(jwtSecret, tok.alg, tok.sub, tok.iat, tok.exp)
    /\ (tok.exp # None => t <= tok.exp)

\* ParseWithClaims with the signature left unverified (as jwt.ParseUnverified does)
ParseWithClaimsOk_unverified(tok, t) ==
    /\ tok.ok
    /\ tok.alg \in Algs
    /\ KeyfuncOk(tok)
    /\ (tok.exp # None => t < tok.exp)

\* jwt.ParseWithClaims with that key function: the method named by the header is
\* looked up, the key function is asked for the key, the signature is verified
\* with the header's method, then exp is validated (now must be before exp)
ParseWithClaimsOk(tok, t) ==
    /\ tok.ok
    /\ tok.alg \in Algs
    /\ KeyfuncOk(tok)
    /\ tok.sig = Sign(jwtSecret, tok.alg, tok.sub, tok.iat, tok.exp)
    /\ (tok.exp # None => t < tok.exp)

(* ------------------------------ middleware ---------------------------- *)

\* an Authorization header is a sequence of space-separated words
Word(s) == [s |-> s, tok |-> NoToken]
JwtWord(tok) == [s |-> "jwt", tok |-> tok]

\* strings.SplitN(auth, " ", 2)
SplitN2(h) == IF Len(h) <= 1 THEN <<h>> ELSE <<SubSeq(h, 1, 1), Tail(h)>>

\* the token a string of words spells: one word, a compact JWT
TokenOf(ws) == IF Len(ws) = 1 /\ ws[1].s = "jwt" THEN ws[1].tok ELSE NoToken

\* the user in the request context: the AnonymousUser pointer, or a fetched row
AnonymousCtx == [set |-> TRUE, anon |-> TRUE, user |-> NoUser]
UserCtx(u) == [set |-> TRUE, anon |-> FALSE, user |-> u]
NoCtx == [set |-> FALSE, anon |-> FALSE, user |-> NoUser]

Rejected(status) == [status |-> status, next |-> FALSE, ctx |-> NoCtx]
Passed(ctx) == [status |-> 0, next |-> TRUE, ctx |-> ctx]

\* authenticate letting a request with a bad header or token through as anonymous
authenticate_lenient(h, us, t) ==
    IF h = <<>> THEN Passed(AnonymousCtx)
    ELSE LET parts == SplitN2(h) IN
    IF Len(parts) # 2 \/ parts[1] # <<Word("Bearer")>> THEN Passed(AnonymousCtx)
    ELSE LET tok == TokenOf(parts[2]) IN
    IF ~ParseWithClaimsOk(tok, t) THEN Passed(AnonymousCtx)
    ELSE IF tok.sub = EmptyString THEN Rejected(StatusUnauthorized)
    ELSE IF ~ParseIntOk(tok.sub) THEN Rejected(StatusUnauthorized)
    ELSE LET got == GetByID(us, ParseInt(tok.sub)) IN
    IF got.err THEN Rejected(StatusUnauthorized)
    ELSE Passed(UserCtx(got.user))

\* authenticate calling next for an empty header without contextSetUser
authenticate_nocontext(h, us, t) ==
    IF h = <<>> THEN Passed(NoCtx)
    ELSE LET parts == SplitN2(h) IN
    IF Len(parts) # 2 \/ parts[1] # <<Word("Bearer")>> THEN Rejected(StatusUnauthorized)
    ELSE LET tok == TokenOf(parts[2]) IN
    IF ~ParseWithClaimsOk(tok, t) THEN Rejected(StatusUnauthorized)
    ELSE IF tok.sub = EmptyString THEN Rejected(StatusUnauthorized)
    ELSE IF ~ParseIntOk(tok.sub) THEN Rejected(StatusUnauthorized)
    ELSE LET got == GetByID(us, ParseInt(tok.sub)) IN
    IF got.err THEN Rejected(StatusUnauthorized)
    ELSE Passed(UserCtx(got.user))

\* authenticate: status and whether next.ServeHTTP is called, with which context
authenticate(h, us, t) ==
    IF h = <<>> THEN Passed(AnonymousCtx)
    ELSE LET parts == SplitN2(h) IN
    IF Len(parts) # 2 \/ parts[1] # <<Word("Bearer")>> THEN Rejected(StatusUnauthorized)
    ELSE LET tok == TokenOf(parts[2]) IN
    IF ~ParseWithClaimsOk(tok, t) THEN Rejected(StatusUnauthorized)
    ELSE IF tok.sub = EmptyString THEN Rejected(StatusUnauthorized)
    ELSE IF ~ParseIntOk(tok.sub) THEN Rejected(StatusUnauthorized)
    ELSE LET got == GetByID(us, ParseInt(tok.sub)) IN
    IF got.err THEN Rejected(StatusUnauthorized)
    ELSE Passed(UserCtx(got.user))

\* authenticate with the identity store unreachable: GetByID returns an error
\* for every id, and authenticate handles every error of GetByID as it handles
\* ErrRecordNotFound, so the outcome is that over the empty table
authenticateFails(h, us, t) == authenticate(h, {}, t)

\* requireAuthenticatedUser without the IsAnonymous check
requireAuthenticatedUser_open(ctx) == TRUE

\* requireAuthenticatedUser: TRUE when next.ServeHTTP is called
requireAuthenticatedUser(ctx) == ~ctx.anon

\* protectedHandler: the body of the answer; a panic (no user in the context,
\* no second word in the header) is answered 500 by recoverPanic
Answer(status, phone, exp, panic) ==
    [status |-> status, phone |-> phone, expires_at |-> exp, panic |-> panic]

protectedHandler(ctx, h) ==
    IF ~ctx.set \/ Len(h) < 2 THEN Answer(StatusInternalServerError, EmptyString, None, TRUE)
    ELSE LET tok == IF h[2].s = "jwt" THEN h[2].tok ELSE NoToken IN
    IF ~tok.ok THEN Answer(StatusUnauthorized, EmptyString, None, FALSE)
    ELSE IF tok.exp = None THEN Answer(StatusUnauthorized, EmptyString, None, FALSE)
    ELSE Answer(StatusOK, ctx.user.phone_number, tok.exp, FALSE)

\* GET /protected: authenticate, then requireAuthenticatedUser, then protectedHandler
ProtectedRoute(h, us, t) ==
    LET a == authenticate(h, us, t) IN
    IF ~a.next
    THEN [answer |-> Answer(a.status, EmptyString, None, FALSE), ctx |-> a.ctx,
          next |-> FALSE, handler |-> FALSE]
    ELSE IF ~requireAuthenticatedUser(a.ctx)
    THEN [answer |-> Answer(StatusUnauthorized, EmptyString, None, FALSE), ctx |-> a.ctx,
          next |-> TRUE, handler |-> FALSE]
    ELSE [answer |-> protectedHandler(a.ctx, h), ctx |-> a.ctx,
          next |-> TRUE, handler |-> TRUE]

(* -------------------------------- state ------------------------------- *)

VARIABLES
    now,      \* wall clock, minutes
    cache,    \* app.cache: key -> nothing, a string (counter) or a hash (otp)
    users,    \* table users
    nextId,   \* the bigserial sequence of users.id
    pc,       \* where each request in flight stands in its handler
    req,      \* its input and the handler's local variables
    held,     \* per phone number, a token a client got from /verify and still holds
    win,      \* per phone number: when its live rate-limit window began and the
              \* counts its calls were given, in order
    issued,   \* per phone number: the code last written to its OTP record and the
              \* codes written before it
    resp,     \* what the step just taken did for a /request or /verify, if anything
    auth      \* the GET /protected request served by the step just taken, if any

vars == <<now, cache, users, nextId, pc, req, held, win, issued, resp, auth>>

InFlight(p) == pc[p] # "idle"

NoReq == [kind |-> "none", phone |-> EmptyString, otp |-> EmptyString,
          matched |-> FALSE, ticked |-> FALSE]
\* status 0: the handler goes on to its next store call
NoResp == [op |-> "none", phone |-> EmptyString, otp |-> EmptyString, count |-> 0,
           allowed |-> FALSE, matched |-> FALSE, status |-> 0, user |-> NoUser,
           token |-> NoToken, fault |-> FALSE, body |-> ""]
NoAuth == [served |-> FALSE, header |-> <<>>, at |-> 0, ctx |-> NoCtx, next |-> FALSE,
           handler |-> FALSE, answer |-> Answer(0, EmptyString, None, FALSE),
           tok |-> NoToken, for |-> EmptyString]
\* past: the count the window before had reached, when that window elapsed less
\* than a window ago or a call followed it; else 0
NoWin == [start |-> None, counts |-> <<>>, past |-> 0]
NoIssued == [newest |-> EmptyString, older |-> {}]

Init ==
    /\ now = 0
    /\ cache = [k \in Keys |-> NoKey]
    /\ users = {}
    /\ nextId = 1
    /\ pc = [p \in Procs |-> "idle"]
    /\ req = [p \in Procs |-> NoReq]
    /\ held = [ph \in Phones |-> NoToken]
    /\ win = [ph \in Phones |-> NoWin]
    /\ issued = [ph \in Phones |-> NoIssued]
    /\ resp = NoResp
    /\ auth = NoAuth

\* a request is taken by the lowest free worker: which goroutine serves it is immaterial
CanStart(p) ==
    /\ ~InFlight(p)
    /\ \A q \in Procs : q < p => InFlight(q)

\* the handler of p goes on to its next store call
Goto(p, label, r) ==
    /\ pc' = [pc EXCEPT ![p] = label]
    /\ req' = [req EXCEPT ![p] = r]

\* the handler of p returns
Return(p) ==
    /\ pc' = [pc EXCEPT ![p] = "idle"]
    /\ req' = [req EXCEPT ![p] = NoReq]

\* the window of a phone number is live from its first counted call for 10 minutes
WinLive(w, t) == w.start # None /\ t < w.start + otpRateLimitWindow

Counted(w, count, t) ==
    IF WinLive(w, t) THEN [w EXCEPT !.counts = Append(w.counts, count)]
    ELSE [start |-> t, counts |-> <<count>>, past |-> w.past]

\* the challenge of a phone number that is live in the store
LiveCode(c, phone) == IF c[phone].type = "hash" THEN c[phone].otp ELSE EmptyString

\* code is written to the OTP record of a phone number
Written(is, code) ==
    [newest |-> code,
     older |-> (is.older \cup (IF is.newest = EmptyString THEN {} ELSE {is.newest})) \ {code}]

(* ------------------------------ POST /request ------------------------- *)

\* handleRequestOTP going on to generateOTP without looking at allowed
Admission_unchecked(p, phone, b0, res, fault) ==
    LET seen == [NoResp EXCEPT !.op = "request", !.phone = phone, !.count = res.count,
                               !.allowed = res.allowed, !.fault = fault]
    IN
    IF res.err
    THEN /\ resp' = [seen EXCEPT !.status = StatusInternalServerError]
         /\ Return(p)
    ELSE /\ resp' = [seen EXCEPT !.otp = generateOTP(b0)]
         /\ Goto(p, "hset", [NoReq EXCEPT !.kind = "request", !.phone = phone,
                                          !.otp = generateOTP(b0)])

\* handleRequestOTP from the reply res of allowOTPRequest on: 500 on an error,
\* 429 when not allowed, else generateOTP and on to storeOTPInRedis
Admission(p, phone, b0, res, fault) ==
    LET seen == [NoResp EXCEPT !.op = "request", !.phone = phone, !.count = res.count,
                               !.allowed = res.allowed, !.fault = fault]
    IN
    IF res.err
    THEN /\ resp' = [seen EXCEPT !.status = StatusInternalServerError]
         /\ Return(p)
    ELSE IF ~res.allowed
    THEN /\ resp' = [seen EXCEPT !.status = StatusTooManyRequests]
         /\ Return(p)
    ELSE /\ resp' = [seen EXCEPT !.otp = generateOTP(b0)]
         /\ Goto(p, "hset", [NoReq EXCEPT !.kind = "request", !.phone = phone,
                                          !.otp = generateOTP(b0)])

\* handleRequestOTP up to storeOTPInRedis: validation, allowOTPRequest, generateOTP
RequestOTP(p, phone, b0) ==
    /\ CanStart(p)
    /\ auth' = NoAuth
    /\ UNCHANGED <<now, users, nextId, held, issued>>
    /\ IF phone = EmptyString
       THEN /\ resp' = [NoResp EXCEPT !.op = "request", !.status = StatusBadRequest]
            /\ Return(p)
            /\ UNCHANGED <<cache, win>>
       ELSE LET res == allowOTPRequest(cache, phone, now) IN
            /\ res.count <= MaxCount
            /\ cache' = res.cache
            /\ win' = IF res.err THEN win
                      ELSE [win EXCEPT ![phone] = Counted(win[phone], res.count, now)]
            /\ Admission(p, phone, b0, res, FALSE)

\* the same with the call of the rate-limit script failing
RequestOTPFails(p, phone, b0, ran) ==
    /\ CanStart(p)
    /\ phone # EmptyString
    /\ auth' = NoAuth
    /\ UNCHANGED <<now, users, nextId, held, issued>>
    /\ LET script == otpRateLimitScript(cache, RLKey(phone), otpRateLimitWindow, now)
           res == allowOTPRequestFails(cache, phone, now, ran)
       IN
       /\ script.count <= MaxCount
       /\ cache' = res.cache
       /\ win' = IF ran /\ ~script.err
                 THEN [win EXCEPT ![phone] = Counted(win[phone], script.count, now)]
                 ELSE win
       /\ Admission(p, phone, b0, res, TRUE)

\* handleRequestOTP giving the admission back when HSet fails
AfterHSet_rollback(p, r, wrote, fault) ==
    LET seen == [NoResp EXCEPT !.op = "hset", !.phone = req[p].phone,
                               !.otp = req[p].otp, !.allowed = TRUE, !.fault = fault]
        k == RLKey(req[p].phone)
    IN
    /\ issued' = IF wrote THEN [issued EXCEPT ![req[p].phone] = Written(@, req[p].otp)]
                 ELSE issued
    /\ IF r.err
       THEN /\ cache' = IF r.cache[k].type = "string"
                        THEN [r.cache EXCEPT ![k].val = @ - 1] ELSE r.cache
            /\ resp' = [seen EXCEPT !.status = StatusInternalServerError]
            /\ Return(p)
       ELSE /\ cache' = r.cache
            /\ resp' = seen
            /\ Goto(p, "expire", req[p])

\* storeOTPInRedis from the reply r of HSet on: an error is returned and answered
\* 500, else on to Expire; wrote: the code was written to the record
AfterHSet(p, r, wrote, fault) ==
    LET seen == [NoResp EXCEPT !.op = "hset", !.phone = req[p].phone,
                               !.otp = req[p].otp, !.allowed = TRUE, !.fault = fault]
    IN
    /\ cache' = r.cache
    /\ issued' = IF wrote THEN [issued EXCEPT ![req[p].phone] = Written(@, req[p].otp)]
                 ELSE issued
    /\ IF r.err
       THEN /\ resp' = [seen EXCEPT !.status = StatusInternalServerError]
            /\ Return(p)
       ELSE /\ resp' = seen
            /\ Goto(p, "expire", req[p])

\* storeOTPInRedis, first call: HSET phoneNumber otp <code>
StoreHSet(p) ==
    /\ pc[p] = "hset"
    /\ auth' = NoAuth
    /\ UNCHANGED <<now, users, nextId, held, win>>
    /\ LET r == HSet(cache, req[p].phone, req[p].otp) IN AfterHSet(p, r, ~r.err, FALSE)

\* the same with the call failing
StoreHSetFails(p, ran) ==
    /\ pc[p] = "hset"
    /\ auth' = NoAuth
    /\ UNCHANGED <<now, users, nextId, held, win>>
    /\ AfterHSet(p, HSetFails(cache, req[p].phone, req[p].otp, ran),
                 ran /\ ~HSet(cache, req[p].phone, req[p].otp).err, TRUE)

\* storeOTPInRedis from the reply r of Expire on, and the answer of handleRequestOTP
AfterExpire(p, r, fault) ==
    LET seen == [NoResp EXCEPT !.op = "expire", !.phone = req[p].phone,
                               !.otp = req[p].otp, !.allowed = TRUE, !.fault = fault]
    IN
    /\ cache' = r.cache
    /\ resp' = [seen EXCEPT !.status = IF r.err THEN StatusInternalServerError
                                       ELSE StatusOK]
    /\ Return(p)

\* storeOTPInRedis, second call: EXPIRE phoneNumber 2m; then 200
StoreExpire(p) ==
    /\ pc[p] = "expire"
    /\ auth' = NoAuth
    /\ UNCHANGED <<now, users, nextId, held, win, issued>>
    /\ AfterExpire(p, Expire(cache, req[p].phone, OtpTTL, now), FALSE)

\* the same with the call failing
StoreExpireFails(p, ran) ==
    /\ pc[p] = "expire"
    /\ auth' = NoAuth
    /\ UNCHANGED <<now, users, nextId, held, win, issued>>
    /\ AfterExpire(p, ExpireFails(cache, req[p].phone, OtpTTL, now, ran), TRUE)

(* ------------------------------ POST /verify -------------------------- *)

\* a refusal that tells the caller whether a code is pending for the phone number
VerifyRefusal_telling(c, phone, otp) ==
    IF c[phone].type = "hash"
    THEN [status |-> StatusUnauthorized, body |-> "Invalid OTP"]
    ELSE [status |-> StatusUnauthorized, body |-> "No OTP requested or OTP expired"]

\* what handleVerifyOTP answers when verifyOTPInRedis returns an error: the
\* error itself is logged only
VerifyRefusal(c, phone, otp) ==
    [status |-> StatusUnauthorized, body |-> "Invalid or expired OTP"]

\* handleVerifyOTP going on to createUserIfNotExists whatever verifyOTPInRedis returned
Checked_unverified(p, phone, otp, ok, fault) ==
    LET match == otp = LiveCode(cache, phone)
        seen == [NoResp EXCEPT !.op = "verify", !.phone = phone, !.otp = otp,
                               !.matched = match, !.fault = fault]
    IN
    /\ UNCHANGED cache
    /\ resp' = seen
    /\ Goto(p, "getuser", [NoReq EXCEPT !.kind = "verify", !.phone = phone,
                                        !.otp = otp, !.matched = match])

\* handleVerifyOTP deleting the record of a phone number once its code has passed
Checked_consume(p, phone, otp, ok, fault) ==
    LET match == otp = LiveCode(cache, phone)
        seen == [NoResp EXCEPT !.op = "verify", !.phone = phone, !.otp = otp,
                               !.matched = match, !.fault = fault]
    IN
    IF ~ok
    THEN /\ resp' = [seen EXCEPT !.status = VerifyRefusal(cache, phone, otp).status,
                                 !.body = VerifyRefusal(cache, phone, otp).body]
         /\ UNCHANGED cache
         /\ Return(p)
    ELSE /\ resp' = seen
         /\ cache' = [cache EXCEPT ![phone] = NoKey]
         /\ Goto(p, "getuser", [NoReq EXCEPT !.kind = "verify", !.phone = phone,
                                             !.otp = otp, !.matched = match])

\* handleVerifyOTP deleting the record of a phone number on a refused attempt
Checked_burn(p, phone, otp, ok, fault) ==
    LET match == otp = LiveCode(cache, phone)
        seen == [NoResp EXCEPT !.op = "verify", !.phone = phone, !.otp = otp,
                               !.matched = match, !.fault = fault]
    IN
    IF ~ok
    THEN /\ resp' = [seen EXCEPT !.status = VerifyRefusal(cache, phone, otp).status,
                                 !.body = VerifyRefusal(cache, phone, otp).body]
         /\ cache' = [cache EXCEPT ![phone] = NoKey]
         /\ Return(p)
    ELSE /\ resp' = seen
         /\ UNCHANGED cache
         /\ Goto(p, "getuser", [NoReq EXCEPT !.kind = "verify", !.phone = phone,
                                             !.otp = otp, !.matched = match])

\* handleVerifyOTP from the result ok of verifyOTPInRedis on: 401 on an error,
\* else on to createUserIfNotExists; HGetAll was its only call to the store
Checked(p, phone, otp, ok, fault) ==
    LET match == otp = LiveCode(cache, phone)
        seen == [NoResp EXCEPT !.op = "verify", !.phone = phone, !.otp = otp,
                               !.matched = match, !.fault = fault]
    IN
    /\ UNCHANGED cache
    /\ IF ~ok
       THEN /\ resp' = [seen EXCEPT !.status = VerifyRefusal(cache, phone, otp).status,
                                    !.body = VerifyRefusal(cache, phone, otp).body]
            /\ Return(p)
       ELSE /\ resp' = seen
            /\ Goto(p, "getuser", [NoReq EXCEPT !.kind = "verify", !.phone = phone,
                                                !.otp = otp, !.matched = match])

\* handleVerifyOTP requiring the phone number only
VerifyOTP_anycode(p, phone, otp) ==
    /\ CanStart(p)
    /\ auth' = NoAuth
    /\ UNCHANGED <<now, users, nextId, held, win, issued>>
    /\ IF phone = EmptyString
       THEN /\ resp' = [NoResp EXCEPT !.op = "verify", !.phone = phone, !.otp = otp,
                                      !.status = StatusBadRequest]
            /\ UNCHANGED cache
            /\ Return(p)
       ELSE Checked(p, phone, otp, verifyOTPInRedis(cache, phone, otp), FALSE)

\* handleVerifyOTP up to createUserIfNotExists: validation, verifyOTPInRedis
VerifyOTP(p, phone, otp) ==
    /\ CanStart(p)
    /\ auth' = NoAuth
    /\ UNCHANGED <<now, users, nextId, held, win, issued>>
    /\ IF phone = EmptyString \/ otp = EmptyString
       THEN /\ resp' = [NoResp EXCEPT !.op = "verify", !.phone = phone, !.otp = otp,
                                      !.status = StatusBadRequest]
            /\ UNCHANGED cache
            /\ Return(p)
       ELSE Checked(p, phone, otp, verifyOTPInRedis(cache, phone, otp), FALSE)

\* the same with the call of HGetAll failing
VerifyOTPFails(p, phone, otp) ==
    /\ CanStart(p)
    /\ phone # EmptyString /\ otp # EmptyString
    /\ auth' = NoAuth
    /\ UNCHANGED <<now, users, nextId, held, win, issued>>
    /\ Checked(p, phone, otp, verifyOTPInRedisFails(cache, phone, otp), TRUE)

\* the client holds on to the first token it was handed for a phone number
Hand(phone, token) ==
    held' = IF held[phone] = NoToken THEN [held EXCEPT ![phone] = token] ELSE held

Verified(p, status, user, token) ==
    [NoResp EXCEPT !.op = "verify", !.phone = req[p].phone, !.otp = req[p].otp,
                   !.matched = req[p].matched, !.status = status, !.user = user,
                   !.token = token]

\* createUserIfNotExists, first call: GetByPhoneNumber; a row found goes on to
\* generateJWT and 200
GetUser(p) ==
    /\ pc[p] = "getuser"
    /\ auth' = NoAuth
    /\ UNCHANGED <<now, cache, users, nextId, win, issued>>
    /\ LET got == GetByPhoneNumber(users, req[p].phone) IN
       IF ~got.err
       THEN LET token == generateJWT(got.user.id, JwtTTL, now) IN
            /\ resp' = Verified(p, StatusOK, got.user, token)
            /\ Return(p)
            /\ Hand(req[p].phone, token)
       ELSE /\ resp' = [Verified(p, 0, NoUser, NoToken) EXCEPT !.op = "getuser"]
            /\ Goto(p, "insert", req[p])
            /\ UNCHANGED held

\* createUserIfNotExists, second call: Insert; an error is answered 500,
\* a new row goes on to generateJWT and 200
InsertUser(p) ==
    /\ pc[p] = "insert"
    /\ nextId <= MaxId
    /\ auth' = NoAuth
    /\ UNCHANGED <<now, cache, win, issued>>
    /\ LET ins == Insert(users, nextId, req[p].phone, now) IN
       /\ users' = ins.users
       /\ nextId' = ins.seq
       /\ Return(p)
       /\ IF ins.err
          THEN /\ resp' = Verified(p, StatusInternalServerError, NoUser, NoToken)
               /\ UNCHANGED held
          ELSE LET token == generateJWT(ins.user.id, JwtTTL, now) IN
               /\ resp' = Verified(p, StatusOK, ins.user, token)
               /\ Hand(req[p].phone, token)

(* ------------------------------ GET /protected ------------------------ *)

\* what a holder of token b, or of another key, can put in a header
Variants(b) ==
    {b}
    \cup {[b EXCEPT !.alg = a] : a \in Algs \ {b.alg}}
    \cup {[b EXCEPT !.sub = s] : s \in {FormatInt(1), FormatInt(2), EmptyString, <<"x">>} \ {b.sub}}
    \cup {[b EXCEPT !.exp = b.exp + JwtTTL]}
    \cup {MakeToken(a, b.sub, b.iat, b.exp, Sign(attackerKey, a, b.sub, b.iat, b.exp)) :
             a \in HMACAlgs}
    \cup {MakeToken(a, b.sub, b.iat, b.exp, Sign(jwtSecret, a, b.sub, b.iat, b.exp)) :
             a \in Algs \ {b.alg}}

\* the tokens clients have: those they held on to, and the one just handed out
HeldTokens ==
    {held[ph] : ph \in {q \in Phones : held[q] # NoToken}}
    \cup (IF resp.token # NoToken THEN {resp.token} ELSE {})

TokenInputs ==
    UNION {Variants(b) : b \in HeldTokens}
    \cup {MakeToken("HS256", FormatInt(1), 0, JwtTTL,
                    Sign(attackerKey, "HS256", FormatInt(1), 0, JwtTTL))}

HeaderInputs ==
    {<<>>, <<Word("Bearer")>>, <<Word("Bearer"), Word("junk")>>}
    \cup {<<Word("Bearer"), JwtWord(tok)>> : tok \in TokenInputs}
    \cup {<<Word("Basic"), JwtWord(tok)>> : tok \in HeldTokens}
    \cup {<<Word("Bearer"), JwtWord(tok), Word("x")>> : tok \in HeldTokens}

\* the phone number a token was handed out for, if it was handed out
HandedFor(tok) ==
    IF resp.token = tok /\ tok # NoToken THEN resp.phone
    ELSE IF \E ph \in Phones : held[ph] = tok /\ tok # NoToken
    THEN CHOOSE ph \in Phones : held[ph] = tok
    ELSE EmptyString

\* one GET /protected request, served from the header to the response; the one
\* served before it has been answered
ServeProtected(h) ==
    /\ ~auth.served
    /\ LET r == ProtectedRoute(h, users, now) IN
       auth' = [served |-> TRUE, header |-> h, at |-> now, ctx |-> r.ctx, next |-> r.next,
                handler |-> r.handler, answer |-> r.answer,
                tok |-> IF Len(h) >= 2 THEN TokenOf(Tail(h)) ELSE NoToken,
                for |-> IF Len(h) >= 2 THEN HandedFor(TokenOf(Tail(h))) ELSE EmptyString]
    /\ resp' = NoResp
    /\ UNCHANGED <<now, cache, users, nextId, pc, req, held, win, issued>>

(* --------------------------------- time ------------------------------- *)

\* idle periods: just short of a rate-limit window, just short of a token's life
WindowGap == otpRateLimitWindow - 1
TokenGap == JwtTTL - 1

MinuteOf(t) ==
    IF t >= TokenGap THEN t - TokenGap
    ELSE IF t >= WindowGap THEN t - WindowGap
    ELSE t

\* the windows that are over at time t are forgotten
Elapsed(w, t) ==
    [ph \in Phones |->
        IF WinLive(w[ph], t) \/ w[ph].start = None THEN w[ph]
        ELSE [NoWin EXCEPT !.past = IF t < w[ph].start + 2 * otpRateLimitWindow
                                      THEN Len(w[ph].counts) ELSE 0]]

\* a minute passes.  A request in flight lasts seconds (its store calls time out
\* after 3 s or 5 s), so it sees at most one minute boundary.
Tick ==
    /\ MinuteOf(now) < MaxTime
    /\ \A p \in Procs : InFlight(p) => ~req[p].ticked
    /\ now' = now + 1
    /\ cache' = Purge(cache, now + 1)
    /\ win' = Elapsed(win, now + 1)
    /\ req' = [p \in Procs |-> IF InFlight(p) THEN [req[p] EXCEPT !.ticked = TRUE] ELSE req[p]]
    /\ resp' = NoResp
    /\ auth' = NoAuth
    /\ UNCHANGED <<users, nextId, pc, held, issued>>

\* nothing is asked of the service for gap minutes
Idle(gap) ==
    /\ now <= MaxTime
    /\ \A p \in Procs : ~InFlight(p)
    /\ now' = now + gap
    /\ cache' = Purge(cache, now + gap)
    /\ win' = Elapsed(win, now + gap)
    /\ resp' = NoResp
    /\ auth' = NoAuth
    /\ UNCHANGED <<users, nextId, pc, req, held, issued>>

IdleWindow == Idle(WindowGap)
IdleToken == Idle(TokenGap)

(* ---------------------------- specifications -------------------------- *)

OtpInputs == {generateOTP(b0) : b0 \in OtpBytes} \cup {EmptyString}
OnePhone == {<<"a">>}
OneProc == {1}

\* POST /request from phone numbers phs (and with none), served by workers ps
Request(ps, phs) ==
    \/ \E p \in ps, phone \in phs \cup {EmptyString}, b0 \in OtpBytes : RequestOTP(p, phone, b0)
    \/ \E p \in ps : StoreHSet(p)
    \/ \E p \in ps : StoreExpire(p)

\* POST /verify
Verify(ps, phs) ==
    \/ \E p \in ps, phone \in phs \cup {EmptyString}, otp \in OtpInputs : VerifyOTP(p, phone, otp)
    \/ \E p \in ps : GetUser(p)
    \/ \E p \in ps : InsertUser(p)

Protected == \E h \in HeaderInputs : ServeProtected(h)

\* the OTP lifecycle and registration of one phone number, two requests at a time
Next == Request(Procs, OnePhone) \/ Verify(Procs, OnePhone) \/ Tick

Spec == Init /\ [][Next]_vars

\* the rate limiter over more than one window
NextRate == Request(Procs, OnePhone) \/ Tick \/ IdleWindow

SpecRate == Init /\ [][NextRate]_vars

\* bearer tokens over their whole life; the users table, which outlives the
\* process, holds a row from an earlier run
OtherPhone == <<"rl:otp:", "a">>

InitAuth ==
    /\ now = 0
    /\ cache = [k \in Keys |-> NoKey]
    /\ users = {UserRow(1, 0, OtherPhone)}
    /\ nextId = 2
    /\ pc = [p \in Procs |-> "idle"]
    /\ req = [p \in Procs |-> NoReq]
    /\ held = [ph \in Phones |-> NoToken]
    /\ win = [ph \in Phones |-> NoWin]
    /\ issued = [ph \in Phones |-> NoIssued]
    /\ resp = NoResp
    /\ auth = NoAuth

NextAuth == Request(OneProc, OnePhone) \/ Verify(OneProc, OnePhone) \/ Protected \/ Tick \/ IdleToken

SpecAuth == InitAuth /\ [][NextAuth]_vars

\* generateOTP on its own: rand.Read fills two bytes, of which the code is
\* computed from the first alone
Generate(b0) ==
    /\ resp' = [NoResp EXCEPT !.op = "generate", !.count = b0, !.otp = generateOTP(b0)]
    /\ auth' = NoAuth
    /\ UNCHANGED <<now, cache, users, nextId, pc, req, held, win, issued>>

NextGen == \E b0 \in Bytes : Generate(b0)

SpecGen == Init /\ [][NextGen]_vars

\* POST /request with store calls that fail
RequestFaults(ps, phs) ==
    \/ \E p \in ps, phone \in phs, b0 \in OtpBytes, ran \in BOOLEAN :
           RequestOTPFails(p, phone, b0, ran)
    \/ \E p \in ps, ran \in BOOLEAN : StoreHSetFails(p, ran)
    \/ \E p \in ps, ran \in BOOLEAN : StoreExpireFails(p, ran)

\* POST /verify with a store call that fails
VerifyFaults(ps, phs) ==
    \E p \in ps, phone \in phs, otp \in OtpInputs : VerifyOTPFails(p, phone, otp)

\* the OTP record and the rate limiter with an unreliable ephemeral store
NextFault ==
    Request(Procs, OnePhone) \/ RequestFaults(Procs, OnePhone)
        \/ VerifyFaults(Procs, OnePhone) \/ Tick

SpecFault == Init /\ [][NextFault]_vars

\* /request for two phone numbers, one the rate-limit key of the other
NextPhones == Request(OneProc, Phones) \/ Tick

SpecPhones == Init /\ [][NextPhones]_vars

(* -------------------------------- claims ------------------------------ *)

\* the counts 1, 2, ..., n in order
Ascending(counts) == \A i \in 1..Len(counts) : counts[i] = i

\* the step just taken ran allowOTPRequest and got a count
Counting == resp.op = "request" /\ resp.count > 0

\* C1: while a rate-limit window of a phone number is live, the k-th call of
\* allowOTPRequest in it is given count k and is allowed exactly when k <= 3;
\* a call that is not allowed is answered 429, an allowed one never is.
C1_KthCallCountsK ==
    /\ \A ph \in Phones : Ascending(win[ph].counts)
    /\ Counting =>
         /\ resp.count = Len(win[resp.phone].counts)
         /\ resp.allowed <=> (Len(win[resp.phone].counts) <= otpRateLimitMax)
         /\ (resp.status = StatusTooManyRequests) <=> ~resp.allowed

\* the fourth call of a window, made while another request is in flight, gets 429
C1_Witness ==
    /\ Counting
    /\ win[resp.phone].counts = <<1, 2, 3, 4>>
    /\ resp.status = StatusTooManyRequests
    /\ \E p \in Procs : InFlight(p)

\* C2: the check-and-increment is one atomic step: no two calls of a window are
\* given the same count, and the stored counter is the number of calls made in
\* the live window, with the expiry the first call gave it.
C2_NoLostUpdate ==
    \A ph \in Phones :
        /\ \A i, j \in 1..Len(win[ph].counts) :
               i # j => win[ph].counts[i] # win[ph].counts[j]
        /\ (cache[RLKey(ph)].type = "string") <=> WinLive(win[ph], now)
        /\ cache[RLKey(ph)].type = "string" =>
               /\ cache[RLKey(ph)].val = Len(win[ph].counts)
               /\ cache[RLKey(ph)].exp = win[ph].start + otpRateLimitWindow

\* two requests for one phone number are in flight at once, both counted
C2_Witness ==
    /\ \A p \in Procs : InFlight(p) /\ req[p].kind = "request" /\ req[p].phone = <<"a">>
    /\ cache[RLKey(<<"a">>)].val = 2

\* the step just taken answered a /verify that had a phone number and a code
VerifyAnswered ==
    /\ resp.op = "verify" /\ resp.status # 0
    /\ resp.phone # EmptyString /\ resp.otp # EmptyString

\* C3: /verify with a phone number and a code answers 200 exactly when the code
\* is that of the live challenge of the phone number, and 401 in every other case.
C3_VerifyOkIffMatch ==
    VerifyAnswered =>
        /\ (resp.status = StatusOK) <=> resp.matched
        /\ resp.status # StatusOK => resp.status = StatusUnauthorized

\* the step just taken served a header "Bearer <token>"
BearerServed == auth.served /\ Len(auth.header) = 2 /\ auth.header[1] = Word("Bearer")

\* ... with a token /verify handed out
HandedServed == BearerServed /\ auth.for # EmptyString

\* the request reached the Authenticated state
Authenticated == auth.served /\ auth.next /\ ~auth.ctx.anon

Refused == auth.served /\ ~auth.next /\ auth.answer.status = StatusUnauthorized

\* C4 as stated: a token of generateJWT is accepted at every time from iat to
\* iat + ttl, both included, and refused with 401 after iat + ttl.
C4_AcceptedThroughExpiry ==
    HandedServed =>
        /\ auth.at <= auth.tok.iat + JwtTTL => Authenticated
        /\ auth.at > auth.tok.iat + JwtTTL => Refused

\* C4, amended: a token of generateJWT is accepted at every time t with
\* iat <= t < iat + ttl, whatever was requested or verified in between, and
\* refused with 401 at every time t >= iat + ttl.
C4_AcceptedBeforeExpiry ==
    HandedServed =>
        /\ auth.tok.iat <= auth.at
        /\ auth.tok.exp = auth.tok.iat + JwtTTL
        /\ auth.at < auth.tok.iat + JwtTTL => Authenticated /\ auth.answer.status = StatusOK
        /\ auth.at >= auth.tok.iat + JwtTTL => Refused

\* a token is accepted in the last minute of its life, after the phone number
\* it was handed out for asked for another code
C4_Witness ==
    /\ HandedServed /\ Authenticated
    /\ auth.at = auth.tok.exp - 1
    /\ cache[auth.for].type = "hash"

\* C5: a token whose header names another algorithm than HS256 is refused with
\* 401, even when its signature was made with the server's secret.
C5_AlgorithmPinned ==
    (BearerServed /\ auth.tok.ok /\ auth.tok.alg # "HS256") => Refused

\* the signature of a token was made with the server's secret over the token's
\* algorithm, subject, issued-at and expiry
SignedByServer(tok) ==
    /\ tok.sig.key = jwtSecret
    /\ tok.sig.alg = tok.alg
    /\ tok.sig.sub = tok.sub
    /\ tok.sig.iat = tok.iat
    /\ tok.sig.exp = tok.exp

\* C6: every token authenticate accepts carries a signature made with the
\* server's secret over its subject, issued-at and expiry.
C6_AcceptedIsSigned ==
    Authenticated => BearerServed /\ auth.tok.ok /\ SignedByServer(auth.tok)

\* a token whose subject was changed to that of an existing identity after the
\* server signed it is refused
C6_Witness ==
    /\ BearerServed /\ Refused
    /\ auth.tok.sig.key = jwtSecret /\ auth.tok.sig.sub # auth.tok.sub
    /\ \E u \in users : FormatInt(u.id) = auth.tok.sub
    /\ auth.at < auth.tok.exp

\* a header that is not "Bearer <token>"
Malformed(h) == ~(Len(h) = 2 /\ h[1] = Word("Bearer") /\ h[2].s = "jwt")

\* C7: a request whose Authorization header is malformed, or whose token is
\* invalid or expired, is answered 401 and the next handler is never invoked.
C7_BadCredentialRefused ==
    (/\ auth.served /\ auth.header # <<>>
     /\ \/ Malformed(auth.header)
        \/ ~SignedByServer(auth.tok)
        \/ auth.tok.exp # None /\ auth.at >= auth.tok.exp)
    => Refused /\ ~auth.handler

\* a token /verify handed out is refused once it has expired
C7_Witness ==
    /\ HandedServed /\ Refused
    /\ auth.at >= auth.tok.exp

\* C8: a request without Authorization header passes authenticate as Anonymous
\* and the next handler is invoked; behind requireAuthenticatedUser it is
\* answered 401, and protectedHandler runs only for Authenticated requests.
C8_AnonymousStopsAtGuard ==
    /\ (auth.served /\ auth.header = <<>>) =>
           /\ auth.next /\ auth.ctx = AnonymousCtx
           /\ ~auth.handler /\ auth.answer.status = StatusUnauthorized
    /\ (auth.served /\ auth.handler) => Authenticated

\* an anonymous request is served while an identity is registered
C8_Witness ==
    /\ auth.served /\ auth.header = <<>> /\ auth.next
    /\ auth.answer.status = StatusUnauthorized
    /\ Cardinality(users) = 2

\* C9: for a token /verify handed out for phone number P, presented during its
\* life, the identity in the request context has the token's subject as id and
\* P as phone number, and GET /protected answers phone P and expires_at equal
\* to the token's issue time + 48 hours.
C9_TokenNamesIdentity ==
    (HandedServed /\ auth.at < auth.tok.exp) =>
        /\ Authenticated /\ auth.handler
        /\ FormatInt(auth.ctx.user.id) = auth.tok.sub
        /\ auth.ctx.user.phone_number = auth.for
        /\ auth.ctx.user \in users
        /\ auth.answer.status = StatusOK
        /\ auth.answer.phone = auth.for
        /\ auth.answer.expires_at = auth.tok.iat + JwtTTL

\* the token of a second identity is presented and answered with its phone number
C9_Witness ==
    /\ HandedServed /\ auth.answer.status = StatusOK
    /\ auth.tok.sub = FormatInt(2)
    /\ auth.answer.phone = <<"a">>
    /\ auth.answer.expires_at = auth.at + 1

\* C10: the identity store holds at most one identity per phone number.
C10_OneIdentityPerPhone ==
    \A u, v \in users : u.phone_number = v.phone_number => u = v

\* two verifications of a new phone number ran at once: both found no row, one
\* inserted it and the other's insert was refused
C10_Witness ==
    /\ resp.op = "verify" /\ resp.status = StatusInternalServerError
    /\ Cardinality(users) = 1
    /\ nextId = 3

\* the step just taken answered a /verify whose code had passed verifyOTPInRedis
VerifyPassedAnswered ==
    resp.op = "verify" /\ resp.status # 0 /\ resp.matched

\* C11: a /verify whose code is valid always finishes with 200 and the
\* identity of its phone number, also when a concurrent /verify registered the
\* phone number first: an insert refused by the uniqueness constraint is never
\* answered as an error.
C11_ConflictRecovered ==
    VerifyPassedAnswered =>
        /\ resp.status = StatusOK
        /\ resp.user \in users
        /\ resp.user.phone_number = resp.phone

\* the step just taken ran verifyOTPInRedis for a /verify: the request was
\* refused, or goes on to createUserIfNotExists (status 0)
VerifyChecked ==
    /\ resp.op = "verify" /\ resp.phone # EmptyString
    /\ resp.status \in {0, StatusUnauthorized}

\* C12: once a code has been written over an earlier one for a phone number, a
\* /verify with the earlier code is answered 401: only the code written last
\* is valid.
C12_OldCodeRefused ==
    (VerifyChecked /\ resp.otp \in issued[resp.phone].older)
        => resp.status = StatusUnauthorized

\* the earlier code is refused while the record of the newer one is live
C12_Witness ==
    /\ VerifyChecked /\ resp.status = StatusUnauthorized
    /\ resp.otp \in issued[resp.phone].older
    /\ cache[resp.phone].type = "hash"
    /\ cache[resp.phone].otp = issued[resp.phone].newest

\* no /request for the phone number is between its store calls
Settled(ph) == \A p \in Procs : ~(InFlight(p) /\ req[p].phone = ph)

\* C13: every OTP record in the ephemeral store has a time to live, and it
\* ends no later than 2 minutes after the code was written; also after a store
\* call of storeOTPInRedis failed.  Stated for the records no /request is
\* working on, and with the bound taken from the present time.
C13_RecordsExpire ==
    \A ph \in Phones :
        (cache[ph].type = "hash" /\ Settled(ph)) =>
            /\ cache[ph].exp # NoTTL
            /\ cache[ph].exp <= now + OtpTTL

\* C14: a challenge is destroyed when it is consumed: once /verify(P, c) has
\* been answered 200, the store holds no record that lets a second
\* /verify(P, c) pass.
C14_ConsumedOnSuccess ==
    (resp.op = "verify" /\ resp.status = StatusOK) =>
        ~verifyOTPInRedis(cache, resp.phone, resp.otp)

\* the codes a client can submit: those generateOTP returns, and one it does not
SubmittedCodes == (OtpInputs \ {EmptyString}) \cup {<<"9", "9", "9", "9">>}

\* the codes with which a /verify for the phone number would pass now
AcceptedCodes(ph) == {o \in SubmittedCodes : verifyOTPInRedis(cache, ph, o)}

\* C15: for each phone number at most one code makes /verify succeed, also
\* after two concurrent /request calls for the phone number have both completed.
C15_OneActiveChallenge ==
    \A ph \in Phones : Cardinality(AcceptedCodes(ph)) <= 1

\* two /request calls ran at once and both were answered 200: the one answered
\* last finds the code of the other in the record, and only that code passes
C15_Witness ==
    /\ resp.op = "expire" /\ resp.status = StatusOK
    /\ \A p \in Procs : ~InFlight(p)
    /\ cache[resp.phone].type = "hash"
    /\ cache[resp.phone].otp # resp.otp
    /\ AcceptedCodes(resp.phone) = {cache[resp.phone].otp}

\* the step just taken refused a /verify that had a phone number and a code
VerifyRefused == VerifyAnswered /\ ~resp.matched

\* what the caller sees of an answer
Seen(r) == [status |-> r.status, body |-> r.body, user |-> r.user, token |-> r.token]

\* C16: /verify gives one and the same response, status and body, when no code
\* was ever requested for the phone number, when its code has expired, and
\* when the code is wrong for a live challenge.
C16_RefusalTellsNothing ==
    VerifyRefused =>
        Seen(resp) = [status |-> StatusUnauthorized, body |-> "Invalid or expired OTP",
                      user |-> NoUser, token |-> NoToken]

\* the code that was issued is refused after its record expired
C16_Witness ==
    /\ VerifyRefused
    /\ cache[resp.phone].type = "none"
    /\ resp.otp = issued[resp.phone].newest

\* ... a code is refused for a phone number that never asked for one
C16_WitnessNever ==
    /\ VerifyRefused
    /\ issued[resp.phone] = NoIssued

\* ... and a wrong code is refused while a challenge is live
C16_WitnessWrong ==
    /\ VerifyRefused
    /\ cache[resp.phone].type = "hash"

\* C17: over all values of its random bytes generateOTP returns every code
\* from 0000 to 9999.
C17_EveryCodeProduced ==
    \A n \in 0..(OtpModulus - 1) : ENABLED (NextGen /\ resp'.otp = Sprintf04d(n))

\* the step just taken called generateOTP
Generated == resp.op = "generate"

\* C18: for every value of its random bytes generateOTP returns a string of
\* exactly 4 decimal digits, leading zeros kept.
C18_FourDigits ==
    Generated =>
        /\ Len(resp.otp) = OtpWidth
        /\ \A i \in 1..Len(resp.otp) : IsDigit(resp.otp[i])
        /\ DigitsValue(resp.otp) = resp.count % OtpModulus

\* a one-digit value is returned with three leading zeros
C18_Witness == Generated /\ resp.count = 7 /\ resp.otp = <<"0", "0", "0", "7">>

\* the step just taken made the first call of allowOTPRequest for its phone
\* number since the window of the phone number elapsed, or the first ever
FirstCallAfterWindow ==
    /\ resp.op = "request" /\ resp.phone # EmptyString
    /\ Len(win[resp.phone].counts) = 1

\* C19: once the window of a phone number has elapsed, the next call of
\* allowOTPRequest for it sets the counter to 1 with a time to live of the
\* whole window, and is allowed, whatever count the window before had reached.
C19_WindowResets ==
    FirstCallAfterWindow =>
        /\ resp.count = 1 /\ resp.allowed
        /\ resp.status # StatusTooManyRequests
        /\ cache[RLKey(resp.phone)] = StringKey(1, now + otpRateLimitWindow)
        /\ RedisTTL(cache, RLKey(resp.phone), now) = otpRateLimitWindow

\* a phone number that was being refused is admitted again after its window
C19_Witness ==
    /\ FirstCallAfterWindow
    /\ win[resp.phone].past > otpRateLimitMax
    /\ resp.allowed

\* the step just taken answered a /request whose rate-limit call failed
RateLimitFailed == resp.op = "request" /\ resp.fault

\* C20: when the call of the rate-limit script fails or times out,
\* allowOTPRequest returns an error and not "allowed": /request is answered
\* 500, not 200 and not 429, and no code is generated or stored for it.
C20_RateLimitFailsClosed ==
    [][\A p \in Procs, ph \in Phones, b0 \in OtpBytes, ran \in BOOLEAN :
          RequestOTPFails(p, ph, b0, ran) =>
              /\ resp'.status = StatusInternalServerError
              /\ ~resp'.allowed
              /\ resp'.otp = EmptyString
              /\ pc'[p] = "idle"
              /\ cache'[ph] = cache[ph]
              /\ issued' = issued]_vars

\* the reply of a script that ran was lost: the call is counted, the request
\* answered 500 and no record written
C20_Witness ==
    /\ RateLimitFailed
    /\ resp.status = StatusInternalServerError
    /\ cache[RLKey(resp.phone)].type = "string"
    /\ cache[resp.phone].type = "none"
    /\ \A p \in Procs : ~InFlight(p)

\* the step just taken answered a request one of whose store calls had failed
AnsweredAfterFault == resp.fault /\ resp.status # 0

\* C21: when a call to a store fails or times out while a request is served,
\* the response is 500, never 401 and never a success.
C21_StoreFailureIs500 ==
    AnsweredAfterFault => resp.status = StatusInternalServerError


\* C22: the decision of authenticate to call the next handler depends only on
\* the token (its signature and expiry): with the identity store reachable or
\* not, whatever it holds, the same header at the same time gets the same
\* decision.
C22_DecisionIgnoresStores ==
    \A h \in HeaderInputs :
        /\ authenticateFails(h, users, now).next = authenticate(h, users, now).next
        /\ \A us \in SUBSET users :
              authenticate(h, us, now).next = authenticate(h, users, now).next


\* the step being taken answers a /verify with 401
RefusingStep == resp'.op = "verify" /\ resp'.status = StatusUnauthorized

\* C23: a /verify answered 401 leaves the ephemeral store as it was (the OTP
\* record, its time to live, the rate-limit counter), so that the code of a live
\* challenge is still accepted after it.
C23_RefusedVerifyKeepsStore ==
    [][RefusingStep =>
          /\ cache' = cache
          /\ LiveCode(cache, resp'.phone) # EmptyString =>
                verifyOTPInRedis(cache', resp'.phone, LiveCode(cache, resp'.phone))]_vars

\* a wrong code was refused while a challenge was live
C23_Witness ==
    /\ resp.op = "verify" /\ resp.status = StatusUnauthorized /\ ~resp.matched
    /\ LiveCode(cache, resp.phone) # EmptyString
    /\ cache[RLKey(resp.phone)].type = "string"


\* no OTP record is stored for the phone number: none was issued, or it expired
NoRecord(c, phone) == c[phone].type = "none"

\* C24: verifyOTPInRedis returns an error for every submitted code, the empty
\* string included, whenever no record is stored for the phone number.
C24_AbsentRecordRefused ==
    \A phone \in OnePhone, otp \in SubmittedCodes \cup {EmptyString} :
        NoRecord(cache, phone) => ~verifyOTPInRedis(cache, phone, otp)


\* the step just taken made a later call of a window, after its first minute
LaterCallInWindow ==
    /\ Counting
    /\ Len(win[resp.phone].counts) > 1
    /\ now > win[resp.phone].start

\* C25: the first call of allowOTPRequest fixes the window: the counter expires
\* 10 minutes after that call however many calls follow, each of which,
\* allowed or not, adds one to it; no counter has more than 10 minutes to live;
\* and the first call made 10 minutes or more after the first call of a window
\* that was refusing is allowed.
C25_WindowFixedByFirstCall ==
    /\ \A ph \in OnePhone :
          LET k == cache[RLKey(ph)] IN
          /\ k.type = "string" =>
                /\ WinLive(win[ph], now)
                /\ k.exp = win[ph].start + otpRateLimitWindow
                /\ k.val = Len(win[ph].counts)
                /\ RedisTTL(cache, RLKey(ph), now) \in 1..otpRateLimitWindow
          /\ k.type = "none" => ~WinLive(win[ph], now)
    /\ Counting =>
          /\ resp.count = cache[RLKey(resp.phone)].val
          /\ win[resp.phone].start + otpRateLimitWindow - now
                = RedisTTL(cache, RLKey(resp.phone), now)
    /\ (FirstCallAfterWindow /\ win[resp.phone].past > otpRateLimitMax) => resp.allowed

\* a call refused a minute or more into its window: the counter has gone up and
\* has less than the whole window to live
C25_Witness ==
    /\ LaterCallInWindow
    /\ ~resp.allowed
    /\ cache[RLKey(resp.phone)].val > otpRateLimitMax
    /\ RedisTTL(cache, RLKey(resp.phone), now) < otpRateLimitWindow


\* the step just taken answered a /request with 200: storeOTPInRedis returned nil
StoredAnswered == resp.op = "expire" /\ resp.status = StatusOK

\* C26: when storeOTPInRedis returns nil for a phone number and a code, the
\* store holds the record of the phone number with that code and the whole 2
\* minutes to live, so that a /verify with the code passes; however the two
\* store calls interleave with other requests and with the expiry of an older
\* record.
C26_StoredWhenAnswered ==
    StoredAnswered =>
        /\ cache[resp.phone] = HashKey(resp.otp, now + OtpTTL)
        /\ verifyOTPInRedis(cache, resp.phone, resp.otp)


\* the keys of the ephemeral store that belong to a phone number
OwnKeys(ph) == {ph, RLKey(ph)}

\* C27: what is done for one phone number changes nothing for another: a step
\* that serves phone number P leaves the OTP record and the rate-limit counter
\* of every other phone number Q as they were, also for Q = "rl:otp:" + P.
C27_PhonesIsolated ==
    [][resp'.phone # EmptyString =>
          \A q \in Phones \ {resp'.phone} :
              \A k \in OwnKeys(q) : cache'[k] = cache[k]]_vars


\* the step being taken ran allowOTPRequest for a /request
AdmissionStep == resp'.op = "request" /\ resp'.phone # EmptyString

\* the step being taken writes a code to the OTP record of a phone number
WritingStep ==
    \E ph \in Phones : cache'[ph].type = "hash" /\ cache'[ph].otp # cache[ph].otp

\* C28: a /request refused with 429 generates no code and leaves the pending OTP
\* record and its time to live as they were; the handler goes on to generate
\* and store a code exactly when allowOTPRequest allowed this request, and only
\* a handler that has gone on writes a code.
C28_RefusedRequestWritesNothing ==
    [][/\ AdmissionStep =>
            /\ cache'[resp'.phone] = cache[resp'.phone]
            /\ resp'.allowed <=> (\E p \in Procs : pc[p] = "idle" /\ pc'[p] = "hset")
            /\ resp'.allowed <=> resp'.otp # EmptyString
            /\ (resp'.status = StatusTooManyRequests) <=> (~resp'.allowed /\ ~resp'.fault)
       /\ WritingStep =>
            \E p \in Procs : pc[p] = "hset" /\ cache'[req[p].phone].otp = req[p].otp
       /\ \A p \in Procs : (pc[p] = "idle" /\ pc'[p] = "hset") => AdmissionStep]_vars

\* a /request was refused with 429 while a code was pending
C28_Witness ==
    /\ resp.op = "request" /\ resp.status = StatusTooManyRequests
    /\ resp.otp = EmptyString
    /\ LiveCode(cache, resp.phone) # EmptyString
    /\ cache[resp.phone].exp # NoTTL


\* the value of the rate-limit counter of a phone number, 0 when there is none
CounterOf(c, phone) == IF c[RLKey(phone)].type = "string" THEN c[RLKey(phone)].val ELSE 0

\* the step being taken is a store call of storeOTPInRedis, or its failure
StoringStep == resp'.op \in {"hset", "expire"}

\* C29: a /request whose rate-limit script ran adds exactly one to the counter
\* of its phone number, and nothing the request does afterwards takes it back:
\* neither the answer 429 nor a failure to store the code (500).  A call whose
\* reply was lost added one or nothing.
C29_AdmissionNeverReturned ==
    [][/\ (AdmissionStep /\ ~resp'.fault) =>
            CounterOf(cache', resp'.phone) = CounterOf(cache, resp'.phone) + 1
       /\ (AdmissionStep /\ resp'.fault) =>
            \/ CounterOf(cache', resp'.phone) = CounterOf(cache, resp'.phone) + 1
            \/ cache' = cache
       /\ StoringStep => cache'[RLKey(resp'.phone)] = cache[RLKey(resp'.phone)]]_vars

\* the third admission of a window ended in 500 at HSET and is still counted
C29_Witness ==
    /\ resp.op = "hset" /\ resp.status = StatusInternalServerError
    /\ CounterOf(cache, resp.phone) = otpRateLimitMax
    /\ win[resp.phone].counts = <<1, 2, 3>>


\* the handler of p is past verifyOTPInRedis, in createUserIfNotExists
Registering(p) == pc[p] \in {"getuser", "insert"}

\* the step being taken adds an identity for a phone number whose code the
\* handler adding it has verified
CreatedAfterVerification ==
    \E p \in Procs :
        /\ pc[p] = "insert" /\ req[p].matched /\ req[p].otp # EmptyString
        /\ \E u \in users' : /\ users' = users \cup {u}
                             /\ u.phone_number = req[p].phone

\* C30: identities are created and tokens issued only after a code was verified:
\* a handler is in createUserIfNotExists only with a code that matched the live
\* challenge of its phone number, only such a handler adds an identity, and
\* a token is handed out only by a /verify answered 200 whose code matched,
\* with the id of the stored identity of that phone number as subject.
C30_OnlyAfterVerification ==
    /\ [](\A p \in Procs : Registering(p) => (req[p].matched /\ req[p].otp # EmptyString))
    /\ [](resp.token # NoToken =>
            /\ resp.op = "verify" /\ resp.status = StatusOK /\ resp.matched
            /\ resp.user \in users
            /\ resp.user.phone_number = resp.phone
            /\ resp.token.sub = FormatInt(resp.user.id))
    /\ [][users' # users => CreatedAfterVerification]_vars

\* a /verify created the identity of its phone number and handed out a token for it
C30_Witness ==
    /\ resp.op = "verify" /\ resp.status = StatusOK /\ resp.matched
    /\ resp.user \in users /\ resp.user.created_at = now
    /\ resp.token = generateJWT(resp.user.id, JwtTTL, now)
    /\ held[resp.phone] = resp.token


\* the step just taken answered a /verify with 200
VerifyOK == resp.op = "verify" /\ resp.status = StatusOK

\* the rows of the identity store with a phone number
RowsOf(us, phone) == {u \in us : u.phone_number = phone}

\* the handler of p looks up a phone number that has an identity
FindingStep(p) ==
    /\ pc[p] = "getuser" /\ pc'[p] # "getuser"
    /\ RowsOf(users, req[p].phone) # {}

\* C31: verifying a phone number again changes nothing in the identity store:
\* a /verify answered 200 returns the one stored row of its phone number (id,
\* created_at, phone number); when the row exists already the handler returns
\* it and adds nothing; and no step changes or removes a stored row.
C31_VerificationIdempotent ==
    /\ [](VerifyOK =>
            /\ RowsOf(users, resp.phone) = {resp.user}
            /\ resp.user.created_at <= now)
    /\ [][/\ users \subseteq users'
          /\ \A p \in Procs :
                FindingStep(p) =>
                    /\ users' = users
                    /\ resp'.status = StatusOK
                    /\ resp'.user \in users]_vars

\* a later /verify returned the identity created by an earlier one
C31_Witness ==
    /\ VerifyOK
    /\ resp.user \in users
    /\ resp.user.created_at < now
    /\ nextId = resp.user.id + 1


\* the step being taken is one of a /verify on its way to 200: the code has
\* passed, the identity is looked up or created, the token is returned
PassingStep ==
    /\ resp'.op \in {"verify", "getuser"}
    /\ resp'.phone # EmptyString
    /\ resp'.status \in {0, StatusOK}

\* C32: a /verify that succeeds changes nothing at the server but the identity
\* store, by at most one new row for its phone number: the ephemeral store
\* (OTP record, rate-limit counter) stays as it was, and the token goes to the
\* caller only.
C32_VerifyOnlyInserts ==
    [][PassingStep =>
          /\ cache' = cache
          /\ users' \in {users, users \cup {UserRow(nextId, now, resp'.phone)}}
          /\ nextId' = nextId + Cardinality(users' \ users)
          /\ resp'.token # NoToken =>
                /\ resp'.token = generateJWT(resp'.user.id, JwtTTL, now)
                /\ resp'.user \in users']_vars

\* a /verify created an identity and was answered 200 with the OTP record and
\* the counter of its phone number still in the store
C32_Witness ==
    /\ VerifyOK /\ resp.token # NoToken
    /\ resp.user.created_at = now
    /\ LiveCode(cache, resp.phone) = resp.otp
    /\ cache[RLKey(resp.phone)].type = "string"


\* the step being taken serves a /request without a phone number, or a /verify
\* without a phone number or without a code
InvalidStep ==
    \/ resp'.op = "request" /\ resp'.phone = EmptyString
    \/ /\ resp'.op \in {"verify", "getuser"}
       /\ resp'.phone = EmptyString \/ resp'.otp = EmptyString

\* C33: a /request with an empty phone number and a /verify with an empty phone
\* number or an empty code are answered 400 at once, with no store call: the
\* counters, the OTP records and the identities stay as they were.
C33_InvalidInputTouchesNothing ==
    [][InvalidStep =>
          /\ resp'.status = StatusBadRequest
          /\ ~resp'.fault
          /\ pc' = pc
          /\ UNCHANGED <<now, cache, users, nextId, win, issued, held>>]_vars

\* a /verify with a phone number and no code was answered 400 while nothing was
\* stored for the phone number
C33_Witness ==
    /\ resp.op = "verify" /\ resp.status = StatusBadRequest
    /\ resp.phone # EmptyString /\ resp.otp = EmptyString
    /\ NoRecord(cache, resp.phone)
    /\ users = {}


\* the header has the form "Bearer <token>": two words, the second a compact JWT
BearerForm(h) == Len(h) = 2 /\ h[1] = Word("Bearer") /\ h[2].s = "jwt"

\* C34: whenever authenticate calls the next handler the request context holds
\* a user, AnonymousUser or a stored identity, so contextGetUser does not panic
\* behind it; and whenever protectedHandler runs behind authenticate and
\* requireAuthenticatedUser the header has the form "Bearer <token>", so the
\* second element of its split exists: no request is answered by a panic.
C34_HandlersNeverPanic ==
    /\ (auth.served /\ auth.next) =>
          /\ auth.ctx.set
          /\ auth.ctx.anon \/ auth.ctx.user \in users
    /\ (auth.served /\ auth.handler) =>
          /\ auth.next /\ ~auth.ctx.anon
          /\ BearerForm(auth.header)
          /\ Len(auth.header) >= 2
    /\ ~auth.answer.panic
    /\ \A h \in HeaderInputs : ~ProtectedRoute(h, users, now).answer.panic

\* protectedHandler ran for a stored identity and answered from the second
\* word of the header
C34_Witness ==
    /\ auth.served /\ auth.handler
    /\ auth.ctx.user \in users
    /\ BearerForm(auth.header)
    /\ auth.answer = Answer(StatusOK, auth.ctx.user.phone_number, auth.header[2].tok.exp, FALSE)

=============================================================================
